---- MODULE Spec2Model ----
(***************************************************************************)
(* Model of reltype's environment-driven PostgreSQL configuration and the  *)
(* shared pool lifecycle: the typed env readers (parseString, parseNumber, *)
(* parseBoolean, readEnv), the two config builders (PostgresConfig.fromEnv *)
(* and getDatabaseConfig) and the pool manager (getDatabasePool,           *)
(* connectDatabase, withDatabaseClient, closeDatabasePool).                *)
(*                                                                         *)
(* A JavaScript string is a sequence of one-character strings, so that     *)
(* trim(), toLowerCase() and Number() are computed and not assumed.        *)
(* A JavaScript value is a tagged record: Undef, Str(s), Num(n), Bool(b).  *)
(***************************************************************************)
EXTENDS Integers, Sequences, FiniteSets, TLC

VARIABLES
    env,          \* process.env / the EnvSource's record: [Keys -> Undef or Str]
    built,        \* outcome of the last PostgresConfig.fromEnv(env) call
    dbc,          \* outcome of the last getDatabaseConfig() call made directly
    readOut,      \* outcome of the last readEnv(env, key, default) call
    sharedPool,   \* the module-level `sharedPool`: 0 is null, else a pool id
    poolStatus,   \* driver pool objects: "unbuilt", "active", "ending", "ended"
    poolConfig,   \* the config each pool object was constructed with
    pc,           \* where each caller's async function is suspended
    target,       \* the pool a suspended caller holds in its local `pool`
    client,       \* the pool whose client the caller holds unreleased (0: none)
    released,     \* client.release() calls made in the caller's current call
    sinceClose,   \* history: pools returned/constructed since the last close call
    last          \* history: the step just taken

vars == <<env, built, dbc, readOut, sharedPool, poolStatus, poolConfig, pc,
          target, client, released, sinceClose, last>>

----------------------------------------------------------------------------
(* JavaScript values *)

Undef   == [t |-> "undef", v |-> 0]
Str(s)  == [t |-> "str",  v |-> s]
Num(n)  == [t |-> "num",  v |-> n]
Bool(b) == [t |-> "bool", v |-> b]

IsUndef(x) == x.t = "undef"

\* JavaScript truthiness of a string-or-undefined value: `if (x)`, `x ? a : b`, `!x`
Truthy(x) == x.t = "str" /\ Len(x.v) > 0

\* the outcome of a call that either returns a value or throws an Error
Ok(x)       == [ok |-> TRUE,  val |-> x,     msg |-> "",  key |-> ""]
Err(m, k)   == [ok |-> FALSE, val |-> Undef, msg |-> m,   key |-> k]
NoCall      == [ok |-> FALSE, val |-> Undef, msg |-> "not called", key |-> ""]
NoRead      == [key |-> "", def |-> Undef, res |-> NoCall]

\* the spec's taxonomy of the Error messages the code throws
ErrKind(r) ==
    CASE r.msg \in {"Empty value provided", "Invalid number value",
                    "Invalid boolean value", "Invalid port range",
                    "DB_MAX must be greater than 0"} -> "InvalidConfig"
      [] r.msg \in {"is required", "either DB_CONNECTION_STRING or DB_NAME must be set"}
                                                   -> "MissingRequiredConfig"
      [] OTHER -> "none"

----------------------------------------------------------------------------
(* Strings *)

UpperCase == <<"A","B","C","D","E","F","G","H","I","J","K","L","M",
               "N","O","P","Q","R","S","T","U","V","W","X","Y","Z">>
LowerCase == <<"a","b","c","d","e","f","g","h","i","j","k","l","m",
               "n","o","p","q","r","s","t","u","v","w","x","y","z">>
Digits    == <<"0","1","2","3","4","5","6","7","8","9">>
WhiteSpace == {" ", "\t", "\n"}

toLowerChar(ch) ==
    IF \E i \in 1..26 : UpperCase[i] = ch
    THEN LowerCase[CHOOSE i \in 1..26 : UpperCase[i] = ch]
    ELSE ch

toLowerCase(s) == [i \in 1..Len(s) |-> toLowerChar(s[i])]

RECURSIVE trimStart(_)
trimStart(s) ==
    IF s # <<>> /\ Head(s) \in WhiteSpace THEN trimStart(Tail(s)) ELSE s

RECURSIVE trimEnd(_)
trimEnd(s) ==
    IF s # <<>> /\ s[Len(s)] \in WhiteSpace
    THEN trimEnd(SubSeq(s, 1, Len(s) - 1)) ELSE s

trim(s) == trimEnd(trimStart(s))

isEmpty(s) == trim(s) = <<>>

IsDigit(ch) == \E i \in 1..10 : Digits[i] = ch
DigitVal(ch) == (CHOOSE i \in 1..10 : Digits[i] = ch) - 1

RECURSIVE DecimalValue(_)
DecimalValue(s) ==
    IF s = <<>> THEN 0
    ELSE 10 * DecimalValue(SubSeq(s, 1, Len(s) - 1)) + DigitVal(s[Len(s)])

s_Infinity == <<"I","n","f","i","n","i","t","y">>

\* fin = FALSE stands for NaN and for the infinities
NotFinite == [fin |-> FALSE, v |-> 0]

SignedDecimal(neg, body) ==
    IF body # <<>> /\ \A i \in 1..Len(body) : IsDigit(body[i])
    THEN [fin |-> TRUE, v |-> IF neg THEN 0 - DecimalValue(body) ELSE DecimalValue(body)]
    ELSE NotFinite

StringToNumber(t) ==
    IF t = <<>> THEN [fin |-> TRUE, v |-> 0]
    ELSE IF Head(t) \in {"+", "-"} THEN SignedDecimal(Head(t) = "-", Tail(t))
    ELSE SignedDecimal(FALSE, t)

\* Number(value) on the strings the model feeds it: surrounding white space is
\* dropped, "" is 0, an optionally signed run of decimal digits is that integer,
\* and every other text of the input sets (abc, true, NaN, [+-]Infinity) is not
\* a finite number.
NumberOf(s) == StringToNumber(trim(s))

----------------------------------------------------------------------------
(* Typed env readers *)

parseString(key, value) ==
    IF isEmpty(value) THEN Err("Empty value provided", key)
    ELSE Ok(Str(value))

FiniteOrThrow(key, num) ==
    IF ~num.fin THEN Err("Invalid number value", key) ELSE Ok(Num(num.v))

parseNumber(key, value) ==
    IF isEmpty(value) THEN Err("Empty value provided", key)
    ELSE FiniteOrThrow(key, NumberOf(value))

s_true  == <<"t","r","u","e">>
s_false == <<"f","a","l","s","e">>
s_1     == <<"1">>
s_0     == <<"0">>

\* a reader that took the logger's truthy tokens (on, yes) as well
BooleanOfNormalized_AcceptsOnYes(key, normalized) ==
    IF normalized \in {s_true, s_1, <<"o","n">>, <<"y","e","s">>} THEN Ok(Bool(TRUE))
    ELSE IF normalized \in {s_false, s_0} THEN Ok(Bool(FALSE))
    ELSE Err("Invalid boolean value", key)

BooleanOfNormalized(key, normalized) ==
    IF normalized \in {s_true, s_1} THEN Ok(Bool(TRUE))
    ELSE IF normalized \in {s_false, s_0} THEN Ok(Bool(FALSE))
    ELSE Err("Invalid boolean value", key)

parseBoolean_AcceptsOnYes(key, value) ==
    BooleanOfNormalized_AcceptsOnYes(key, toLowerCase(trim(value)))

parseBoolean(key, value) == BooleanOfNormalized(key, toLowerCase(trim(value)))

\* readEnv(env, key, defaultValue): the parser is chosen by the default's type
readEnv(e, key, defaultValue) ==
    IF IsUndef(e[key]) THEN Ok(defaultValue)
    ELSE IF defaultValue.t = "num" THEN parseNumber(key, e[key].v)
    ELSE IF defaultValue.t = "bool" THEN parseBoolean(key, e[key].v)
    ELSE parseString(key, e[key].v)

----------------------------------------------------------------------------
(* Config builders *)

Keys == {"DB_CONNECTION_STRING", "DB_HOST", "DB_PORT", "DB_NAME", "DB_USER",
         "DB_PASSWORD", "DB_SSL", "DB_MAX", "DB_IDLE_TIMEOUT",
         "DB_CONNECTION_TIMEOUT", "DB_ALLOW_EXIT_ON_IDLE", "DB_STATEMENT_TIMEOUT",
         "DB_QUERY_TIMEOUT", "DB_APPLICATION_NAME", "DB_PARSE_INPUT_DATES_AS_UTC",
         "DB_KEEP_ALIVE", "DB_KEEP_ALIVE_INITIAL_DELAY"}

Fields == {"host", "port", "database", "user", "password", "connectionString",
           "ssl", "max", "idleTimeoutMillis", "connectionTimeoutMillis",
           "allowExitOnIdle", "statement_timeout", "query_timeout",
           "application_name", "parseInputDatesAsUTC", "keepAlive",
           "keepAliveInitialDelayMillis"}

s_localhost == <<"1","2","7",".","0",".","0",".","1">>
s_postgres  == <<"p","o","s","t","g","r","e","s">>

\* An object literal whose property initialisers are evaluated in order: the
\* first initialiser that throws decides the outcome, otherwise the object has
\* the listed properties and every other field is undefined.
ObjectLiteral(props) ==
    IF \E i \in 1..Len(props) : ~props[i][2].ok
    THEN props[CHOOSE i \in 1..Len(props) :
                  /\ ~props[i][2].ok
                  /\ \A j \in 1..(i - 1) : props[j][2].ok][2]
    ELSE Ok([f \in Fields |->
                IF \E i \in 1..Len(props) : props[i][1] = f
                THEN props[CHOOSE i \in 1..Len(props) : props[i][1] = f][2].val
                ELSE Undef])

getOptionalNumber(e, key) ==
    IF ~IsUndef(e[key]) THEN parseNumber(key, e[key].v) ELSE Ok(Undef)

getOptionalBoolean(e, key) ==
    IF ~IsUndef(e[key]) THEN parseBoolean(key, e[key].v) ELSE Ok(Undef)

\* PostgresConfig.validate, run by the constructor on the assigned options
validate(options) ==
    IF ~IsUndef(options.port) /\ (options.port.v <= 0 \/ options.port.v > 65535)
    THEN Err("Invalid port range", "DB_PORT")
    ELSE IF ~IsUndef(options.max) /\ options.max.v <= 0
    THEN Err("DB_MAX must be greater than 0", "DB_MAX")
    ELSE Ok(options)

\* new PostgresConfig(options), the argument being an object literal
NewPostgresConfig(literal) ==
    IF literal.ok THEN validate(literal.val) ELSE literal

fromEnv(e) ==
    LET connectionString == e["DB_CONNECTION_STRING"]
        database == e["DB_NAME"]
        portRaw  == e["DB_PORT"]
    IN  IF Truthy(connectionString)
        THEN NewPostgresConfig(ObjectLiteral(<<
                <<"connectionString", parseString("DB_CONNECTION_STRING", connectionString.v)>>,
                <<"ssl", getOptionalBoolean(e, "DB_SSL")>> >>))
        ELSE IF ~Truthy(database) THEN Err("is required", "DB_NAME")
        ELSE IF ~Truthy(portRaw) THEN Err("is required", "DB_PORT")
        ELSE NewPostgresConfig(ObjectLiteral(<<
                <<"host", Ok(IF IsUndef(e["DB_HOST"]) THEN Str(s_localhost) ELSE e["DB_HOST"])>>,
                <<"port", IF Truthy(e["DB_PORT"]) THEN parseNumber("DB_PORT", portRaw.v)
                          ELSE Ok(Num(5432))>>,
                <<"database", parseString("DB_NAME", database.v)>>,
                <<"user", Ok(IF IsUndef(e["DB_USER"]) THEN Str(s_postgres) ELSE e["DB_USER"])>>,
                <<"password", Ok(IF IsUndef(e["DB_PASSWORD"]) THEN Str(s_postgres)
                                 ELSE e["DB_PASSWORD"])>>,
                <<"ssl", getOptionalBoolean(e, "DB_SSL")>>,
                <<"max", getOptionalNumber(e, "DB_MAX")>>,
                <<"idleTimeoutMillis", getOptionalNumber(e, "DB_IDLE_TIMEOUT")>>,
                <<"connectionTimeoutMillis", getOptionalNumber(e, "DB_CONNECTION_TIMEOUT")>>,
                <<"allowExitOnIdle", getOptionalBoolean(e, "DB_ALLOW_EXIT_ON_IDLE")>>,
                <<"statement_timeout", getOptionalNumber(e, "DB_STATEMENT_TIMEOUT")>>,
                <<"query_timeout", getOptionalNumber(e, "DB_QUERY_TIMEOUT")>>,
                <<"application_name", Ok(e["DB_APPLICATION_NAME"])>>,
                <<"parseInputDatesAsUTC", getOptionalBoolean(e, "DB_PARSE_INPUT_DATES_AS_UTC")>>,
                <<"keepAlive", getOptionalBoolean(e, "DB_KEEP_ALIVE")>>,
                <<"keepAliveInitialDelayMillis",
                  getOptionalNumber(e, "DB_KEEP_ALIVE_INITIAL_DELAY")>> >>))

\* `env.KEY ? readEnv<number>(env, KEY, d) : undefined`
NumberIfTruthy(e, key, d) ==
    IF Truthy(e[key]) THEN readEnv(e, key, Num(d)) ELSE Ok(Undef)

\* `readEnv<boolean>(env, KEY, d) || undefined`
OrUndefined(r) == IF r.ok /\ ~r.val.v THEN Ok(Undef) ELSE r

BooleanOrUndefined(e, key, d) == OrUndefined(readEnv(e, key, Bool(d)))

\* the check that follows the object literal in getDatabaseConfig
RequireNameOrConnectionString(config) ==
    IF ~config.ok THEN config
    ELSE IF ~Truthy(config.val.connectionString) /\ ~Truthy(config.val.database)
    THEN Err("either DB_CONNECTION_STRING or DB_NAME must be set", "DB_NAME")
    ELSE config

getDatabaseConfig(e) ==
    RequireNameOrConnectionString(ObjectLiteral(<<
            <<"host", readEnv(e, "DB_HOST", Str(s_localhost))>>,
            <<"port", readEnv(e, "DB_PORT", Num(5432))>>,
            <<"database", Ok(e["DB_NAME"])>>,
            <<"user", readEnv(e, "DB_USER", Str(s_postgres))>>,
            <<"password", readEnv(e, "DB_PASSWORD", Str(s_postgres))>>,
            <<"connectionString", Ok(e["DB_CONNECTION_STRING"])>>,
            <<"ssl", IF ~IsUndef(e["DB_SSL"]) THEN readEnv(e, "DB_SSL", Bool(FALSE))
                     ELSE Ok(Undef)>>,
            <<"max", NumberIfTruthy(e, "DB_MAX", 10)>>,
            <<"idleTimeoutMillis", NumberIfTruthy(e, "DB_IDLE_TIMEOUT", 30000)>>,
            <<"connectionTimeoutMillis", NumberIfTruthy(e, "DB_CONNECTION_TIMEOUT", 2000)>>,
            <<"allowExitOnIdle", BooleanOrUndefined(e, "DB_ALLOW_EXIT_ON_IDLE", FALSE)>>,
            <<"statement_timeout", NumberIfTruthy(e, "DB_STATEMENT_TIMEOUT", 0)>>,
            <<"query_timeout", NumberIfTruthy(e, "DB_QUERY_TIMEOUT", 0)>>,
            <<"application_name", Ok(e["DB_APPLICATION_NAME"])>>,
            <<"parseInputDatesAsUTC", BooleanOrUndefined(e, "DB_PARSE_INPUT_DATES_AS_UTC", FALSE)>>,
            <<"keepAlive", BooleanOrUndefined(e, "DB_KEEP_ALIVE", TRUE)>>,
            <<"keepAliveInitialDelayMillis",
              NumberIfTruthy(e, "DB_KEEP_ALIVE_INITIAL_DELAY", 10000)>> >>))

----------------------------------------------------------------------------
(* Pool lifecycle manager *)

NumCallers == 2
MaxPools   == 2

Callers == 1..NumCallers
PoolIds == 1..MaxPools

NoEnv == [k \in Keys |-> Undef]

s_app   == <<"a","p","p">>
s_5432  == <<"5","4","3","2">>
s_url   == <<"p","g",":","/","/","h","/","d">>
s_abc   == <<"a","b","c">>

EnvDiscrete   == [NoEnv EXCEPT !["DB_NAME"] = Str(s_app), !["DB_PORT"] = Str(s_5432)]
EnvConnString == [NoEnv EXCEPT !["DB_CONNECTION_STRING"] = Str(s_url)]
EnvBadPort    == [EnvDiscrete EXCEPT !["DB_PORT"] = Str(s_abc)]

\* process.env as found by a getDatabasePool call
PoolEnvs == {EnvDiscrete, EnvConnString, EnvBadPort}

\* `new Pool(config)` yields an object that did not exist before
FreshPool(status) ==
    CHOOSE p \in PoolIds :
        /\ status[p] = "unbuilt"
        /\ \A q \in PoolIds : q < p => status[q] # "unbuilt"

CanConstruct(status) == \E p \in PoolIds : status[p] = "unbuilt"

\* The effect of getDatabasePool on the module state: res is what the caller
\* gets (the pool, or the thrown config error), sharedPool the handle
\* afterwards, created the pool object constructed by this call (0: none).
Reused(sp) == [res |-> Ok(Num(sp)), sharedPool |-> sp, created |-> 0, config |-> Undef]

Constructed(p, config) ==
    [res |-> Ok(Num(p)), sharedPool |-> p, created |-> p, config |-> config.val]

\* a construction that did not wait for getDatabaseConfig() to have returned
NewPool_BeforeConfigCheck(sp, status, config) ==
    IF ~config.ok
    THEN [res |-> config, sharedPool |-> FreshPool(status),
          created |-> FreshPool(status), config |-> Undef]
    ELSE Constructed(FreshPool(status), config)

\* `const config = getDatabaseConfig(); sharedPool = new Pool(config)`: a thrown
\* config error leaves the function before the assignment
NewPool(sp, status, config) ==
    IF ~config.ok
    THEN [res |-> config, sharedPool |-> sp, created |-> 0, config |-> Undef]
    ELSE Constructed(FreshPool(status), config)

\* a getDatabasePool without the `if (sharedPool) return sharedPool` line
getDatabasePool_NoReuse(sp, status, e) ==
    IF ~CanConstruct(status) THEN Reused(sp)
    ELSE NewPool(sp, status, getDatabaseConfig(e))

\* a getDatabasePool that assigned the handle before the config was checked
getDatabasePool_PoolBeforeConfig(sp, status, e) ==
    IF sp # 0 THEN Reused(sp)
    ELSE NewPool_BeforeConfigCheck(sp, status, getDatabaseConfig(e))

getDatabasePool(sp, status, e) ==
    IF sp # 0 THEN Reused(sp)
    ELSE NewPool(sp, status, getDatabaseConfig(e))

\* The synchronous part of closeDatabasePool: ending is the pool whose end()
\* is called (0: none, the no-op branch), sharedPool the handle afterwards.
\* The first is a closeDatabasePool without the `sharedPool = null` line.
closeDatabasePool_KeepsHandle(sp) ==
    IF sp = 0 THEN [ending |-> 0, sharedPool |-> 0]
    ELSE [ending |-> sp, sharedPool |-> sp]

closeDatabasePool(sp) ==
    IF sp = 0 THEN [ending |-> 0, sharedPool |-> 0]
    ELSE [ending |-> sp, sharedPool |-> 0]

\* The `finally` block of withDatabaseClient: whether client.release() runs,
\* given how the body settled. The first is a release() placed after the
\* await instead of in a finally block.
releaseInFinally_OnSuccessOnly(outcome) == outcome \in {"returned"}

releaseInFinally(outcome) == outcome \in {"returned", "threw"}

\* The step just taken: the function that ran, what it handed its caller, the
\* pool object it constructed (0: none), and, for the step that completes
\* withDatabaseClient, the caller whose call it was (0 for the other steps).
Step(a, c, res, created) ==
    [act |-> a, c |-> IF a = "withDatabaseClient done" THEN c ELSE 0,
     res |-> res, created |-> created]

NoHistory == [returned |-> {}, constructed |-> 0]

\* the module-state update shared by every caller of getDatabasePool; env
\* keeps the process.env that the last getDatabaseConfig() call has read
ApplyGet(e, g) ==
    /\ env' = IF sharedPool = 0 THEN e ELSE env
    /\ sharedPool' = g.sharedPool
    /\ poolStatus' = IF g.created = 0 THEN poolStatus
                     ELSE [poolStatus EXCEPT ![g.created] = "active"]
    /\ poolConfig' = IF g.created = 0 THEN poolConfig
                     ELSE [poolConfig EXCEPT ![g.created] = g.config]
    /\ sinceClose' = [returned |-> IF g.res.ok THEN sinceClose.returned \cup {g.res.val.v}
                                   ELSE sinceClose.returned,
                      constructed |-> IF g.created = 0 THEN sinceClose.constructed
                                      ELSE sinceClose.constructed + 1]

PoolOnly == UNCHANGED <<built, dbc, readOut>>

\* a caller calls getDatabasePool() with process.env = e (the environment is
\* not read while the handle is set, so there it is left as it was)
GetDatabasePool(c, e) ==
    /\ pc[c] = "idle"
    /\ sharedPool # 0 \/ CanConstruct(poolStatus)
    /\ sharedPool # 0 => e = env
    /\ \E g \in {getDatabasePool(sharedPool, poolStatus, e)} :
           /\ ApplyGet(e, g)
           /\ last' = Step("getDatabasePool", c, g.res, g.created)
    /\ client' = [client EXCEPT ![c] = 0]
    /\ released' = [released EXCEPT ![c] = 0]
    /\ UNCHANGED <<pc, target>>
    /\ PoolOnly

\* connectDatabase() up to its `await pool.connect()`, called directly
\* (o = "connectDatabase") or as the first line of withDatabaseClient
ConnectDatabase(c, e, o) ==
    /\ pc[c] = "idle"
    /\ sharedPool # 0 \/ CanConstruct(poolStatus)
    /\ sharedPool # 0 => e = env
    /\ \E g \in {getDatabasePool(sharedPool, poolStatus, e)} :
           /\ ApplyGet(e, g)
           /\ pc' = [pc EXCEPT ![c] = IF ~g.res.ok THEN "idle"
                                      ELSE IF o = "withDatabaseClient" THEN "with_connecting"
                                      ELSE "connecting"]
           /\ target' = [target EXCEPT ![c] = IF g.res.ok THEN g.res.val.v ELSE 0]
           /\ last' = Step(o, c, g.res, g.created)
    /\ client' = [client EXCEPT ![c] = 0]
    /\ released' = [released EXCEPT ![c] = 0]
    /\ PoolOnly

\* the driver resolves pool.connect() with a client
ConnectResolve(c) ==
    /\ pc[c] \in {"connecting", "with_connecting"}
    /\ poolStatus[target[c]] = "active"
    /\ client' = [client EXCEPT ![c] = target[c]]
    /\ pc' = [pc EXCEPT ![c] = IF pc[c] = "with_connecting" THEN "body" ELSE "holding"]
    /\ target' = [target EXCEPT ![c] = 0]
    /\ last' = Step("connectResolve", c, Ok(Undef), 0)
    /\ UNCHANGED <<env, sharedPool, poolStatus, poolConfig, released, sinceClose>>
    /\ PoolOnly

\* the driver rejects pool.connect() (timeout, refused, pool ended): the
\* rejection leaves connectDatabase, and withDatabaseClient, unchanged
ConnectReject(c) ==
    /\ pc[c] \in {"connecting", "with_connecting"}
    /\ pc' = [pc EXCEPT ![c] = "idle"]
    /\ target' = [target EXCEPT ![c] = 0]
    /\ last' = Step("connectReject", c, Err("PoolError", ""), 0)
    /\ UNCHANGED <<env, sharedPool, poolStatus, poolConfig, client, released, sinceClose>>
    /\ PoolOnly

\* the promise of fn(client) settles: outcome is "returned" or "threw"
BodySettles(c, outcome) ==
    /\ pc[c] = "body"
    /\ pc' = [pc EXCEPT ![c] = outcome]
    /\ last' = Step("bodySettles", c, IF outcome = "returned" THEN Ok(Undef)
                                      ELSE Err("body threw", ""), 0)
    /\ UNCHANGED <<env, sharedPool, poolStatus, poolConfig, target, client,
                   released, sinceClose>>
    /\ PoolOnly

\* withDatabaseClient resumes after `await fn(client)`, runs its finally block
\* and completes with the body's outcome
WithFinally(c) ==
    /\ pc[c] \in {"returned", "threw"}
    /\ released' = [released EXCEPT ![c] = IF releaseInFinally(pc[c]) THEN @ + 1 ELSE @]
    /\ client' = [client EXCEPT ![c] = IF releaseInFinally(pc[c]) THEN 0 ELSE @]
    /\ pc' = [pc EXCEPT ![c] = "idle"]
    /\ last' = Step("withDatabaseClient done", c,
                    IF pc[c] = "returned" THEN Ok(Undef) ELSE Err("body threw", ""), 0)
    /\ UNCHANGED <<env, sharedPool, poolStatus, poolConfig, target, sinceClose>>
    /\ PoolOnly

\* a direct caller of connectDatabase releases its client, as documented
CallerReleases(c) ==
    /\ pc[c] = "holding"
    /\ released' = [released EXCEPT ![c] = @ + 1]
    /\ client' = [client EXCEPT ![c] = 0]
    /\ pc' = [pc EXCEPT ![c] = "idle"]
    /\ last' = Step("callerReleases", c, Ok(Undef), 0)
    /\ UNCHANGED <<env, sharedPool, poolStatus, poolConfig, target, sinceClose>>
    /\ PoolOnly

\* closeDatabasePool() up to its `await pool.end()`
CloseDatabasePool(c) ==
    /\ pc[c] = "idle"
    /\ \E k \in {closeDatabasePool(sharedPool)} :
           /\ sharedPool' = k.sharedPool
           /\ poolStatus' = IF k.ending = 0 THEN poolStatus
                            ELSE [poolStatus EXCEPT ![k.ending] = "ending"]
           /\ pc' = [pc EXCEPT ![c] = IF k.ending = 0 THEN "idle" ELSE "closing"]
           /\ target' = [target EXCEPT ![c] = k.ending]
           /\ last' = Step(IF k.ending = 0 THEN "closeNoop" ELSE "closeDatabasePool",
                           c, Ok(Num(k.ending)), 0)
    /\ client' = [client EXCEPT ![c] = 0]
    /\ released' = [released EXCEPT ![c] = 0]
    /\ sinceClose' = NoHistory
    /\ UNCHANGED <<env, poolConfig>>
    /\ PoolOnly

\* the driver resolves pool.end(): the pool has drained and closed
EndResolves(c) ==
    /\ pc[c] = "closing"
    /\ poolStatus' = [poolStatus EXCEPT ![target[c]] = "ended"]
    /\ pc' = [pc EXCEPT ![c] = "idle"]
    /\ target' = [target EXCEPT ![c] = 0]
    /\ last' = Step("endResolves", c, Ok(Undef), 0)
    /\ UNCHANGED <<env, sharedPool, poolConfig, client, released, sinceClose>>
    /\ PoolOnly

PoolInit ==
    /\ sharedPool = 0
    /\ poolStatus = [p \in PoolIds |-> "unbuilt"]
    /\ poolConfig = [p \in PoolIds |-> Undef]
    /\ pc = [c \in Callers |-> "idle"]
    /\ target = [c \in Callers |-> 0]
    /\ client = [c \in Callers |-> 0]
    /\ released = [c \in Callers |-> 0]
    /\ sinceClose = NoHistory
    /\ last = Step("init", 0, Ok(Undef), 0)

Init ==
    /\ env \in PoolEnvs
    /\ built = NoCall
    /\ dbc = NoCall
    /\ readOut = NoRead
    /\ PoolInit

Next ==
    \/ \E c \in Callers, e \in PoolEnvs : GetDatabasePool(c, e)
    \/ \E c \in Callers, e \in PoolEnvs :
          \E o \in {"connectDatabase", "withDatabaseClient"} : ConnectDatabase(c, e, o)
    \/ \E c \in Callers : ConnectResolve(c)
    \/ \E c \in Callers : ConnectReject(c)
    \/ \E c \in Callers, outcome \in {"returned", "threw"} : BodySettles(c, outcome)
    \/ \E c \in Callers : WithFinally(c)
    \/ \E c \in Callers : CallerReleases(c)
    \/ \E c \in Callers : CloseDatabasePool(c)
    \/ \E c \in Callers : EndResolves(c)

Spec == Init /\ [][Next]_vars

----------------------------------------------------------------------------
(* The config builders applied to bounded environments *)

MaxOverrides == 1

s_empty == <<>>
s_blank == <<" ">>
s_70000 == <<"7","0","0","0","0">>

\* raw values an environment key may hold: empty, white space, a text that is
\* neither a number nor a boolean, numbers in and out of range, a boolean
RawValues == {Str(s_empty), Str(s_blank), Str(s_abc), Str(s_0), Str(s_70000),
              Str(s_true), Undef}

EnvBoth == [EnvDiscrete EXCEPT !["DB_CONNECTION_STRING"] = Str(s_url)]

RECURSIVE EnvsWithin(_)
EnvsWithin(n) ==
    IF n = 0 THEN {EnvDiscrete, EnvConnString, EnvBoth}
    ELSE LET prev == EnvsWithin(n - 1)
         IN  prev \cup {[e EXCEPT ![k] = v] : e \in prev, k \in Keys, v \in RawValues}

ConfigEnvs == EnvsWithin(MaxOverrides)

\* PostgresConfig.fromEnv(new NodeEnvSource(env))
CallFromEnv ==
    /\ built = NoCall
    /\ built' = fromEnv(env)
    /\ UNCHANGED <<env, dbc, readOut, sharedPool, poolStatus, poolConfig, pc,
                   target, client, released, sinceClose, last>>

\* getDatabaseConfig() with process.env = env
CallGetDatabaseConfig ==
    /\ dbc = NoCall
    /\ dbc' = getDatabaseConfig(env)
    /\ UNCHANGED <<env, built, readOut, sharedPool, poolStatus, poolConfig, pc,
                   target, client, released, sinceClose, last>>

InitConfig ==
    /\ env \in ConfigEnvs
    /\ built = NoCall
    /\ dbc = NoCall
    /\ readOut = NoRead
    /\ PoolInit

NextConfig == CallFromEnv \/ CallGetDatabaseConfig

SpecConfig == InitConfig /\ [][NextConfig]_vars

----------------------------------------------------------------------------
(* The typed reader applied to bounded raw values *)

toUpperChar(ch) ==
    IF \E i \in 1..26 : LowerCase[i] = ch
    THEN UpperCase[CHOOSE i \in 1..26 : LowerCase[i] = ch]
    ELSE ch

\* every spelling of s in upper and lower case letters
RECURSIVE AllCasings(_)
AllCasings(s) ==
    IF s = <<>> THEN {<<>>}
    ELSE {<<ch>> \o t : ch \in {Head(s), toUpperChar(Head(s))}, t \in AllCasings(Tail(s))}

\* s with white space around it
Padded(S) == S \cup {<<" ">> \o s : s \in S} \cup {s \o <<" ">> : s \in S}
               \cup {<<" ">> \o s \o <<"\t">> : s \in S}

s_on    == <<"o","n">>
s_yes   == <<"y","e","s">>
s_maybe == <<"m","a","y","b","e">>
s_2     == <<"2">>
s_NaN   == <<"N","a","N">>

TrueTokens  == AllCasings(s_true) \cup {s_1}
FalseTokens == AllCasings(s_false) \cup {s_0}
OnYesTokens == AllCasings(s_on) \cup AllCasings(s_yes)
OtherTokens == {s_empty, s_blank, s_maybe, s_2, s_abc, s_5432, s_NaN, s_Infinity,
                <<"t">>, <<"t","r","u","e","1">>, <<"-","1">>}

ReaderTokens == Padded(TrueTokens) \cup Padded(FalseTokens) \cup Padded(OnYesTokens)
                  \cup OtherTokens

ReaderKeys == {"DB_SSL", "DB_PORT", "DB_HOST"}

ReaderDefaults == {Bool(FALSE), Bool(TRUE), Num(5432), Str(s_localhost)}

\* readEnv(env, key, defaultValue)
CallReadEnv(key, defaultValue) ==
    /\ readOut = NoRead
    /\ readOut' = [key |-> key, def |-> defaultValue, res |-> readEnv(env, key, defaultValue)]
    /\ UNCHANGED <<env, built, dbc, sharedPool, poolStatus, poolConfig, pc,
                   target, client, released, sinceClose, last>>

InitReader ==
    /\ env \in {NoEnv} \cup {[NoEnv EXCEPT ![k] = Str(tok)] : k \in ReaderKeys, tok \in ReaderTokens}
    /\ built = NoCall
    /\ dbc = NoCall
    /\ readOut = NoRead
    /\ PoolInit

NextReader == \E key \in ReaderKeys, d \in ReaderDefaults : CallReadEnv(key, d)

SpecReader == InitReader /\ [][NextReader]_vars

----------------------------------------------------------------------------
(* Properties of the pool lifecycle, checked under Spec *)

GetActs == {"getDatabasePool", "connectDatabase", "withDatabaseClient"}

\* C1: between two closeDatabasePool calls, every getDatabasePool call (made
\* directly or through connectDatabase / withDatabaseClient, by any caller)
\* returns the same pool object, which is the shared handle, and the driver's
\* Pool is constructed at most once.
C1_SameInstanceBetweenCloses ==
    /\ Cardinality(sinceClose.returned) <= 1
    /\ sinceClose.constructed <= 1
    /\ sinceClose.returned \subseteq {sharedPool}

\* two callers wait on pool.connect() of the one pool constructed since the last close
C1_Witness ==
    \E c1, c2 \in Callers :
        /\ c1 # c2
        /\ pc[c1] \in {"connecting", "with_connecting"}
        /\ pc[c2] \in {"connecting", "with_connecting"}
        /\ target[c1] = target[c2]
        /\ sinceClose.constructed = 1
        /\ sinceClose.returned = {target[c1]}

\* C2: a client acquired by withDatabaseClient is held, unreleased, while the
\* body runs and until the finally block runs, is never released twice, and
\* has been released exactly once when withDatabaseClient has completed,
\* whether the body returned or threw; no idle caller holds a client.
C2_ReleasedExactlyOnce ==
    \A c \in Callers :
        /\ released[c] <= 1
        /\ pc[c] \in {"body", "returned", "threw"} => client[c] # 0 /\ released[c] = 0
        /\ pc[c] = "idle" => client[c] = 0
        /\ last.act = "withDatabaseClient done" /\ last.c = c =>
               client[c] = 0 /\ released[c] = 1

\* withDatabaseClient has just completed with the body's error, the client released
C2_Witness ==
    /\ last.act = "withDatabaseClient done"
    /\ ~last.res.ok
    /\ client[last.c] = 0
    /\ released[last.c] = 1

\* C3: the shared handle only ever holds an active pool; closeDatabasePool on an
\* active pool clears the handle and puts that pool to ending; a pool object a
\* later getDatabasePool constructs is a new one, built while the handle was
\* empty, and becomes the handle; closeDatabasePool with no pool changes
\* neither the handle nor any pool (end() is not called).
C3_StateOk ==
    /\ sharedPool # 0 => poolStatus[sharedPool] = "active"
    /\ last.act = "closeDatabasePool" =>
           sharedPool = 0 /\ poolStatus[last.res.val.v] \in {"ending", "ended"}
    /\ last.created # 0 => sharedPool = last.created

C3_StepOk ==
    /\ last'.act = "closeNoop" => sharedPool = 0 /\ UNCHANGED <<sharedPool, poolStatus>>
    /\ last'.created # 0 =>
           /\ sharedPool = 0
           /\ poolStatus[last'.created] = "unbuilt"
           /\ poolStatus'[last'.created] = "active"

C3_Lifecycle == [](C3_StateOk) /\ [][C3_StepOk]_vars

\* Active again after Closed: the handle holds an active pool other than an ended one
C3_Witness ==
    \E p, q \in PoolIds :
        /\ p # q
        /\ poolStatus[p] = "ended"
        /\ sharedPool = q
        /\ poolStatus[q] = "active"
        /\ last.created = q

\* C4: there is never more than one pool object that has been constructed and
\* has not yet finished closing.
C4_AtMostOneLivePool ==
    Cardinality({p \in PoolIds : poolStatus[p] \in {"active", "ending"}}) <= 1

\* C10: a getDatabasePool call whose config building fails happens with the
\* handle empty, hands the caller a configuration error, constructs no pool,
\* leaves the handle, every pool and every caller's position unchanged (no
\* pool.connect() is requested); every pool that is constructed is constructed
\* with the config built from the environment that very call has read.
C10_StepOk ==
    last'.act \in GetActs /\ ~last'.res.ok =>
        /\ sharedPool = 0
        /\ ErrKind(last'.res) \in {"InvalidConfig", "MissingRequiredConfig"}
        /\ last'.created = 0
        /\ UNCHANGED <<sharedPool, poolStatus, poolConfig, pc, target>>

C10_StateOk ==
    /\ last.created # 0 =>
           /\ getDatabaseConfig(env).ok
           /\ poolConfig[last.created] = getDatabaseConfig(env).val
    /\ \A p \in PoolIds : poolStatus[p] # "unbuilt" => poolConfig[p] # Undef

C10_ConfigErrorIsFatal == [](C10_StateOk) /\ [][C10_StepOk]_vars

\* a config error has just been thrown in the Closed state, and nothing was built
C10_Witness ==
    /\ last.act \in GetActs
    /\ ~last.res.ok
    /\ sharedPool = 0
    /\ \E p \in PoolIds : poolStatus[p] = "ended"
    /\ \A p \in PoolIds : poolStatus[p] \in {"ended", "unbuilt"}

----------------------------------------------------------------------------
(* Properties of the config builders, checked under SpecConfig *)

Called(r) == r # NoCall

IsBlank(s) == \A i \in 1..Len(s) : s[i] \in WhiteSpace

\* raw texts that spell a boolean, and raw texts that spell a decimal number
IsBooleanText(s) == s \in Padded(TrueTokens \cup FalseTokens)
IsNumericText(s) == s # <<>> /\ \A i \in 1..Len(s) : \E d \in 1..10 : Digits[d] = s[i]

\* C5: with a non-blank DB_CONNECTION_STRING (and DB_SSL absent or a boolean),
\* each builder returns a record holding the connection string, the SSL flag
\* if DB_SSL is set, and nothing else, whatever the other keys hold.
C5_ConnectionStringWinsOutright ==
    \A r \in {built, dbc} :
        /\ Called(r)
        /\ ~IsUndef(env["DB_CONNECTION_STRING"])
        /\ ~IsBlank(env["DB_CONNECTION_STRING"].v)
        /\ IsUndef(env["DB_SSL"]) \/ IsBooleanText(env["DB_SSL"].v)
        => /\ r.ok
           /\ r.val.connectionString = env["DB_CONNECTION_STRING"]
           /\ IsUndef(r.val.ssl) <=> IsUndef(env["DB_SSL"])
           /\ \A f \in Fields \ {"connectionString", "ssl"} : IsUndef(r.val[f])

\* C6: with DB_CONNECTION_STRING absent or empty, each builder fails with
\* MissingRequiredConfig naming a missing (absent or empty) key among DB_NAME
\* and DB_PORT whenever DB_NAME or DB_PORT is absent, and returns no record.
C6_NameAndPortRequired ==
    \A r \in {built, dbc} :
        /\ Called(r)
        /\ ~Truthy(env["DB_CONNECTION_STRING"])
        /\ IsUndef(env["DB_NAME"]) \/ IsUndef(env["DB_PORT"])
        => /\ ~r.ok
           /\ ErrKind(r) = "MissingRequiredConfig"
           /\ r.key \in {"DB_NAME", "DB_PORT"} /\ ~Truthy(env[r.key])

\* C7: every record a builder returns has its port, when present, in (0, 65535]
\* and its max, when present, above 0.
C7_PortAndMaxInRange ==
    \A r \in {built, dbc} :
        Called(r) /\ r.ok =>
            /\ ~IsUndef(r.val.port) => r.val.port.v > 0 /\ r.val.port.v <= 65535
            /\ ~IsUndef(r.val.max) => r.val.max.v > 0

StringKeys  == {"DB_HOST", "DB_NAME", "DB_USER", "DB_PASSWORD", "DB_APPLICATION_NAME"}
NumericKeys == {"DB_PORT", "DB_MAX", "DB_IDLE_TIMEOUT", "DB_CONNECTION_TIMEOUT",
                "DB_STATEMENT_TIMEOUT", "DB_QUERY_TIMEOUT", "DB_KEEP_ALIVE_INITIAL_DELAY"}
BooleanKeys == {"DB_SSL", "DB_ALLOW_EXIT_ON_IDLE", "DB_PARSE_INPUT_DATES_AS_UTC",
                "DB_KEEP_ALIVE"}

Malformed(e, k) ==
    /\ ~IsUndef(e[k])
    /\ \/ IsBlank(e[k].v)
       \/ k \in NumericKeys /\ ~IsNumericText(e[k].v)
       \/ k \in BooleanKeys /\ ~IsBooleanText(e[k].v)

\* C9: with no connection string set, each builder raises a configuration
\* error whenever some key it reads is present but malformed.
C9_MalformedNeverAccepted ==
    \A r \in {built, dbc} :
        /\ Called(r)
        /\ IsUndef(env["DB_CONNECTION_STRING"])
        /\ \E k \in StringKeys \cup NumericKeys \cup BooleanKeys : Malformed(env, k)
        => /\ ~r.ok
           /\ ErrKind(r) \in {"InvalidConfig", "MissingRequiredConfig"}

----------------------------------------------------------------------------
(* Properties of the typed boolean reader, checked under SpecReader *)

BoolRead == readOut # NoRead /\ readOut.def.t = "bool" /\ ~IsUndef(env[readOut.key])

\* C8 as stated: true, 1, on, yes in any letter case read as true, false and 0
\* as false, every other value raises InvalidConfig.
C8_OnAndYesReadAsTrue ==
    BoolRead =>
        LET raw == env[readOut.key].v
        IN  /\ raw \in Padded(TrueTokens \cup OnYesTokens) => readOut.res = Ok(Bool(TRUE))
            /\ raw \in Padded(FalseTokens) => readOut.res = Ok(Bool(FALSE))
            /\ raw \notin Padded(TrueTokens \cup OnYesTokens \cup FalseTokens) =>
                   ~readOut.res.ok /\ ErrKind(readOut.res) = "InvalidConfig"

\* C8 amended: true and 1 in any letter case, with or without white space
\* around them, read as true, false and 0 likewise as false, and every other
\* value, on and yes included, raises InvalidConfig naming the key.
C8_BooleanTokens ==
    BoolRead =>
        LET raw == env[readOut.key].v
        IN  /\ raw \in Padded(TrueTokens) => readOut.res = Ok(Bool(TRUE))
            /\ raw \in Padded(FalseTokens) => readOut.res = Ok(Bool(FALSE))
            /\ raw \notin Padded(TrueTokens) \cup Padded(FalseTokens) =>
                   /\ ~readOut.res.ok
                   /\ ErrKind(readOut.res) = "InvalidConfig"
                   /\ readOut.res.key = readOut.key

\* a key holding a spelling of on or yes was read with a boolean default, and
\* the read raised
C8_Witness ==
    /\ BoolRead
    /\ env[readOut.key].v \in OnYesTokens
    /\ ~readOut.res.ok

====
